---- MODULE Spec2Model ----
(***************************************************************************)
(* A model of the cdm-backend services: UserService (app/services/users.py),*)
(* ListService (app/services/lists.py) and TaskService                      *)
(* (app/services/task.py) over three MongoDB collections.                   *)
(*                                                                          *)
(* A collection is a sequence of documents in natural (insertion) order:    *)
(* find_one / update_one / delete_one act on the FIRST document matching    *)
(* the filter, find returns all matching documents in that order.           *)
(*                                                                          *)
(* Identifiers (uuid4 strings) are positive integers handed out by          *)
(* counters; 0 stands for None / the empty string (both falsy in Python).   *)
(* Timestamps (created_at, last_updated_at, createdAt, updatedAt) are not   *)
(* modelled.                                                                *)
(***************************************************************************)
EXTENDS Integers, Sequences, FiniteSets, TLC

VARIABLES users, lists, tasks, nextUser, nextList, nextTask, call

vars == <<users, lists, tasks, nextUser, nextList, nextTask, call>>

\* ------------------------------------------------------------------ bounds
MaxUsers == 2
MaxLists == 1
MaxTasks == 2
MaxVersion == 2
\* The longest run of consecutive calls a property applies to one state.
MaxCalls == 2

\* ------------------------------------------------------------ input domains
UserIds == 1..MaxUsers
ListIds == 1..MaxLists
TaskIds == 1..MaxTasks

\* The task engine is explored for one account and its one list.
OwnerIds == {1}
OwnerListIds == {1}

\* An e-mail address is its sequence of characters.
Mail(local, domain) == <<local, "@", domain>>

\* The signup payloads (UserCreate) the model draws from.
UserDrafts ==
    { [username |-> "ann", email |-> Mail("a", "x"), phone_number |-> "p1", google_id |-> "g1"],
      [username |-> "bob", email |-> Mail("b", "x"), phone_number |-> "p2", google_id |-> "g2"],
      [username |-> "cat", email |-> Mail("c", "y"), phone_number |-> "p3", google_id |-> "g3"] }

FirstDraft == CHOOSE d \in UserDrafts : d.username = "ann"

\* ListVisibilityLevel
PRIVATE == "PRIVATE"
ORGANIZATION_ONLY == "ORGANIZATION_ONLY"
PUBLIC == "PUBLIC"
ListVisibilityLevel == {PRIVATE, ORGANIZATION_ONLY, PUBLIC}

\* ------------------------------------------------------------- collections
\* An exact-match filter {"field": value, ...} is a record.
Matches(doc, filter) == \A f \in DOMAIN filter : doc[f] = filter[f]

\* Index of the first document matching the filter, 0 if none: the document
\* find_one returns and update_one / delete_one act on.
FindOneIndex(c, filter) ==
    IF \E i \in 1..Len(c) : Matches(c[i], filter)
    THEN CHOOSE i \in 1..Len(c) :
            Matches(c[i], filter) /\ \A j \in 1..(i - 1) : ~Matches(c[j], filter)
    ELSE 0

\* find(filter): the matching documents in natural order.
Find(c, filter) ==
    LET Test(d) == Matches(d, filter)
    IN  SelectSeq(c, Test)

\* {"$set": patch} on one document: the fields the patch names are
\* overwritten, the others kept.
SetFields(doc, patch) ==
    [f \in DOMAIN doc |-> IF f \in DOMAIN patch THEN patch[f] ELSE doc[f]]

\* update_one(filter, {"$set": patch}): only the first match is written.
UpdateOne(c, filter, patch) ==
    LET i == FindOneIndex(c, filter)
    IN  IF i = 0 THEN c ELSE [c EXCEPT ![i] = SetFields(c[i], patch)]

\* delete_one(filter): the first match is removed.
DeleteOne(c, filter) ==
    LET i == FindOneIndex(c, filter)
    IN  IF i = 0 THEN c ELSE SubSeq(c, 1, i - 1) \o SubSeq(c, i + 1, Len(c))

\* The stores as one value, threaded through the service methods.
World == [users |-> users, lists |-> lists, tasks |-> tasks,
          nextUser |-> nextUser, nextList |-> nextList, nextTask |-> nextTask]

\* A method's outcome: status "ok" or the exception's name, the stores
\* afterwards, and the returned value as a sequence of documents.
Outcome(status, w, value) == [status |-> status, w |-> w, value |-> value]

\* ------------------------------------------------------------- UserService
\* user_exists: one {"field": value} condition per truthy argument, joined by
\* $or; google_id is accepted and never used.
user_exists(w, username, email, phone_number, user_id, google_id) ==
    LET query_conditions ==
            (IF username # "" THEN {[username |-> username]} ELSE {})
            \cup (IF email # <<>> THEN {[email |-> email]} ELSE {})
            \cup (IF phone_number # "" THEN {[phone_number |-> phone_number]} ELSE {})
            \cup (IF user_id # 0 THEN {[user_id |-> user_id]} ELSE {})
    IN  IF query_conditions = {} THEN FALSE
        ELSE \E q \in query_conditions : FindOneIndex(w.users, q) # 0

\* user_exists(user_id=...), the form the other services call.
user_id_exists(w, user_id) == user_exists(w, "", <<>>, "", user_id, "")

create_user(w, user_data) ==
    IF user_exists(w, user_data.username, user_data.email, user_data.phone_number, 0, "")
    THEN Outcome("UserAlreadyExistsError", w, <<>>)
    ELSE LET user_doc == [user_id |-> w.nextUser,
                          username |-> user_data.username,
                          email |-> user_data.email,
                          phone_number |-> user_data.phone_number,
                          google_id |-> user_data.google_id]
         IN  Outcome("ok",
                     [w EXCEPT !.users = Append(@, user_doc), !.nextUser = @ + 1],
                     <<user_doc>>)

get_user(w, user_id) ==
    LET i == FindOneIndex(w.users, [user_id |-> user_id])
    IN  IF i = 0 THEN Outcome("UserNotFoundError", w, <<>>)
        ELSE Outcome("ok", w, <<w.users[i]>>)

\* update_data is the dump of the fields the caller set (a record); the
\* other users' fields are never consulted.
update_user(w, user_id, update_data) ==
    IF ~user_id_exists(w, user_id) THEN Outcome("UserNotFoundError", w, <<>>)
    ELSE IF DOMAIN update_data = {} THEN Outcome("NoFieldsToUpdateError", w, <<>>)
    ELSE LET after == [w EXCEPT !.users = UpdateOne(@, [user_id |-> user_id], update_data)]
         IN  get_user(after, user_id)

delete_user(w, user_id) ==
    IF ~user_id_exists(w, user_id) THEN Outcome("UserNotFoundError", w, <<>>)
    ELSE Outcome("ok", [w EXCEPT !.users = DeleteOne(@, [user_id |-> user_id])], <<>>)

\* google_authenticate_user: user_exists with the same arguments, True or
\* UserNotFoundError.
google_authenticate_user(w, username, email, phone_number, user_id, google_id) ==
    IF ~user_exists(w, username, email, phone_number, user_id, google_id)
    THEN Outcome("UserNotFoundError", w, <<>>)
    ELSE Outcome("ok", w, <<TRUE>>)

\* UserResponse.domain_name: the part of the e-mail address after the "@".
domain_name(user) ==
    LET e == user.email
        at == CHOOSE i \in 1..Len(e) : e[i] = "@" /\ \A j \in 1..(i - 1) : e[j] # "@"
    IN  SubSeq(e, at + 1, Len(e))

\* ------------------------------------------------------------- ListService
list_exists(w, user_id, list_name, list_id) ==
    IF list_id # 0
    THEN Outcome("ok", w, <<FindOneIndex(w.lists, [list_id |-> list_id]) # 0>>)
    ELSE IF user_id # 0 /\ list_name # ""
    THEN Outcome("ok", w,
                 <<FindOneIndex(w.lists, [user_id |-> user_id, list_name |-> list_name]) # 0>>)
    ELSE Outcome("InvalidParameters", w, <<>>)

\* list_exists(list_id=...), the form the other methods call.
list_id_exists(w, list_id) ==
    LET r == list_exists(w, 0, "", list_id)
    IN  r.status = "ok" /\ r.value[1]

\* A faulty create_list: the version count starts at 0.
create_list_from_zero(w, list_data) ==
    LET list_doc == [list_id |-> w.nextList,
                     user_id |-> list_data.user_id,
                     list_name |-> list_data.list_name,
                     visibility |-> PRIVATE,
                     version |-> 0,
                     share_token |-> w.nextList]
    IN  Outcome("ok",
                [w EXCEPT !.lists = Append(@, list_doc), !.nextList = @ + 1],
                <<list_doc>>)

create_list(w, list_data) ==
    LET list_doc == [list_id |-> w.nextList,
                     user_id |-> list_data.user_id,
                     list_name |-> list_data.list_name,
                     visibility |-> PRIVATE,
                     version |-> 1,
                     share_token |-> w.nextList]
    IN  Outcome("ok",
                [w EXCEPT !.lists = Append(@, list_doc), !.nextList = @ + 1],
                <<list_doc>>)

get_list(w, list_id) ==
    LET i == FindOneIndex(w.lists, [list_id |-> list_id])
    IN  IF i = 0 THEN Outcome("ListNotFoundError", w, <<>>)
        ELSE Outcome("ok", w, <<w.lists[i]>>)

\* update_data is the dump of the fields the caller set (a record).
update_list(w, list_id, update_data) ==
    IF ~list_id_exists(w, list_id) THEN Outcome("ListNotFoundError", w, <<>>)
    ELSE IF DOMAIN update_data = {} THEN Outcome("NoFieldsToUpdateError", w, <<>>)
    ELSE IF /\ "visibility" \in DOMAIN update_data
            /\ update_data.visibility # ""
            /\ update_data.visibility \notin ListVisibilityLevel
    THEN Outcome("ValueError", w, <<>>)
    ELSE LET w2 == [w EXCEPT !.lists = UpdateOne(@, [list_id |-> list_id], update_data)]
         IN  get_list(w2, list_id)

\* A faulty increment_version: the version written is the one read.
increment_version_same_version(w, list_id) ==
    LET current_list == get_list(w, list_id)
    IN  IF current_list.status # "ok" THEN current_list
        ELSE update_list(w, list_id, [version |-> current_list.value[1].version])

\* A faulty increment_version: a new share token is issued with the version.
increment_version_new_token(w, list_id) ==
    LET current_list == get_list(w, list_id)
    IN  IF current_list.status # "ok" THEN current_list
        ELSE update_list(w, list_id,
                         [version |-> current_list.value[1].version + 1,
                          share_token |-> w.nextList])

increment_version(w, list_id) ==
    LET current_list == get_list(w, list_id)
    IN  IF current_list.status # "ok" THEN current_list
        ELSE LET updated == update_list(w, list_id,
                                        [version |-> current_list.value[1].version + 1])
             IN  IF updated.status # "ok" THEN updated
                 ELSE get_list(updated.w, list_id)

delete_list(w, list_id) ==
    IF ~list_id_exists(w, list_id) THEN Outcome("ListNotFoundError", w, <<>>)
    ELSE Outcome("ok", [w EXCEPT !.lists = DeleteOne(@, [list_id |-> list_id])], <<>>)

\* A faulty get_list_with_share_token: the PRIVATE rule is missing.
get_list_with_share_token_no_private_rule(w, share_token, requester_id) ==
    LET i == FindOneIndex(w.lists, [share_token |-> share_token])
    IN  IF i = 0 THEN Outcome("ListNotFoundError", w, <<>>)
        ELSE LET list_object == w.lists[i]
                 list_owner == get_user(w, list_object.user_id)
                 list_requester == get_user(w, requester_id)
             IN  IF list_owner.status # "ok" THEN list_owner
                 ELSE IF list_requester.status # "ok" THEN list_requester
                 ELSE IF /\ list_owner.value[1].user_id # list_requester.value[1].user_id
                         /\ list_object.visibility = ORGANIZATION_ONLY
                         /\ domain_name(list_owner.value[1]) # domain_name(list_requester.value[1])
                 THEN Outcome("ListAuthenticationError", w, <<>>)
                 ELSE Outcome("ok", w, <<list_object>>)

\* A faulty get_list_with_share_token: the visibility rules are applied to
\* the owner as to anyone else.
get_list_with_share_token_owner_as_anyone(w, share_token, requester_id) ==
    LET i == FindOneIndex(w.lists, [share_token |-> share_token])
    IN  IF i = 0 THEN Outcome("ListNotFoundError", w, <<>>)
        ELSE LET list_object == w.lists[i]
                 list_owner == get_user(w, list_object.user_id)
                 list_requester == get_user(w, requester_id)
             IN  IF list_owner.status # "ok" THEN list_owner
                 ELSE IF list_requester.status # "ok" THEN list_requester
                 ELSE IF list_object.visibility = PRIVATE
                 THEN Outcome("ListAuthenticationError", w, <<>>)
                 ELSE IF /\ list_object.visibility = ORGANIZATION_ONLY
                         /\ domain_name(list_owner.value[1]) # domain_name(list_requester.value[1])
                 THEN Outcome("ListAuthenticationError", w, <<>>)
                 ELSE Outcome("ok", w, <<list_object>>)

\* A faulty get_list_with_share_token: the owner and the requester are looked
\* up only where a visibility rule needs them.
get_list_with_share_token_late_lookup(w, share_token, requester_id) ==
    LET i == FindOneIndex(w.lists, [share_token |-> share_token])
    IN  IF i = 0 THEN Outcome("ListNotFoundError", w, <<>>)
        ELSE LET list_object == w.lists[i]
                 list_owner == get_user(w, list_object.user_id)
                 list_requester == get_user(w, requester_id)
             IN  IF list_object.visibility \notin {PRIVATE, ORGANIZATION_ONLY}
                 THEN Outcome("ok", w, <<list_object>>)
                 ELSE IF list_owner.status # "ok" THEN list_owner
                 ELSE IF list_requester.status # "ok" THEN list_requester
                 ELSE IF /\ list_owner.value[1].user_id # list_requester.value[1].user_id
                         /\ list_object.visibility = PRIVATE
                 THEN Outcome("ListAuthenticationError", w, <<>>)
                 ELSE IF /\ list_owner.value[1].user_id # list_requester.value[1].user_id
                         /\ list_object.visibility = ORGANIZATION_ONLY
                         /\ domain_name(list_owner.value[1]) # domain_name(list_requester.value[1])
                 THEN Outcome("ListAuthenticationError", w, <<>>)
                 ELSE Outcome("ok", w, <<list_object>>)

get_list_with_share_token(w, share_token, requester_id) ==
    LET i == FindOneIndex(w.lists, [share_token |-> share_token])
    IN  IF i = 0 THEN Outcome("ListNotFoundError", w, <<>>)
        ELSE LET list_object == w.lists[i]
                 list_owner == get_user(w, list_object.user_id)
                 list_requester == get_user(w, requester_id)
             IN  IF list_owner.status # "ok" THEN list_owner
                 ELSE IF list_requester.status # "ok" THEN list_requester
                 ELSE IF /\ list_owner.value[1].user_id # list_requester.value[1].user_id
                         /\ list_object.visibility = PRIVATE
                 THEN Outcome("ListAuthenticationError", w, <<>>)
                 ELSE IF /\ list_owner.value[1].user_id # list_requester.value[1].user_id
                         /\ list_object.visibility = ORGANIZATION_ONLY
                         /\ domain_name(list_owner.value[1]) # domain_name(list_requester.value[1])
                 THEN Outcome("ListAuthenticationError", w, <<>>)
                 ELSE Outcome("ok", w, <<list_object>>)

\* ------------------------------------------------------------- TaskService
\* The fields of TaskResponse (timestamps aside): all are required.
TaskFields == {"user_id", "list_id", "task_id", "task_name", "reminders",
               "isComplete", "isPriority", "isRecurring", "list_version"}

\* TaskResponse(**t): pydantic rejects a document that lacks a required field.
ValidTaskResponse(t) == TaskFields \subseteq DOMAIN t

\* A faulty create_task: the list is never looked up.
create_task_list_unchecked(w, task_data) ==
    IF ~user_id_exists(w, task_data.user_id) THEN Outcome("UserNotFoundError", w, <<>>)
    ELSE LET task_doc == [user_id |-> task_data.user_id,
                          list_id |-> task_data.list_id,
                          task_id |-> w.nextTask,
                          task_name |-> task_data.task_name,
                          reminders |-> task_data.reminders,
                          isComplete |-> FALSE,
                          isPriority |-> task_data.isPriority,
                          isRecurring |-> task_data.isRecurring,
                          list_version |-> task_data.list_version]
         IN  Outcome("ok",
                     [w EXCEPT !.tasks = Append(@, task_doc), !.nextTask = @ + 1],
                     <<task_doc>>)

\* list_exists(list_id = ...) raises InvalidParameters for a falsy list_id.
create_task(w, task_data) ==
    LET exists == list_exists(w, 0, "", task_data.list_id)
    IN  IF ~user_id_exists(w, task_data.user_id) THEN Outcome("UserNotFoundError", w, <<>>)
        ELSE IF exists.status # "ok" THEN exists
        ELSE IF ~exists.value[1] THEN Outcome("ListNotFoundError", w, <<>>)
        ELSE LET task_doc == [user_id |-> task_data.user_id,
                              list_id |-> task_data.list_id,
                              task_id |-> w.nextTask,
                              task_name |-> task_data.task_name,
                              reminders |-> task_data.reminders,
                              isComplete |-> FALSE,
                              isPriority |-> task_data.isPriority,
                              isRecurring |-> task_data.isRecurring,
                              list_version |-> task_data.list_version]
             IN  Outcome("ok",
                         [w EXCEPT !.tasks = Append(@, task_doc), !.nextTask = @ + 1],
                         <<task_doc>>)

get_task(w, task_id) ==
    LET i == FindOneIndex(w.tasks, [task_id |-> task_id])
    IN  IF i = 0 THEN Outcome("TaskNotFoundError", w, <<>>)
        ELSE Outcome("ok", w, <<w.tasks[i]>>)

\* update_data is the dump of the fields the caller set (a record). The write
\* is update_one({"user_id": user_id}, ...): it goes to the first task
\* document of that user, whatever its task_id.
update_task(w, user_id, task_id, update_data) ==
    IF ~user_id_exists(w, user_id) THEN Outcome("UserNotFoundError", w, <<>>)
    ELSE IF FindOneIndex(w.tasks, [task_id |-> task_id]) = 0
    THEN Outcome("TaskNotFoundError", w, <<>>)
    ELSE IF DOMAIN update_data = {} THEN Outcome("NoFieldsToUpdateError", w, <<>>)
    ELSE LET w2 == [w EXCEPT !.tasks = UpdateOne(@, [user_id |-> user_id], update_data)]
         IN  get_task(w2, task_id)

\* delete_task raises UserNotFoundError for an absent task.
delete_task(w, task_id) ==
    IF FindOneIndex(w.tasks, [task_id |-> task_id]) = 0
    THEN Outcome("UserNotFoundError", w, <<>>)
    ELSE Outcome("ok", [w EXCEPT !.tasks = DeleteOne(@, [task_id |-> task_id])], <<>>)

\* A faulty _duplicate_task: the source itself is moved to the new version.
duplicate_task_moves_source(w, task_id, new_list_version) ==
    LET task_response == get_task(w, task_id)
    IN  IF task_response.status # "ok" THEN task_response
        ELSE LET moved == [w EXCEPT !.tasks = UpdateOne(@, [task_id |-> task_id],
                                                        [list_version |-> new_list_version])]
             IN  get_task(moved, task_id)

\* A faulty _duplicate_task: the source's reminders are carried over.
duplicate_task_keeps_reminders(w, task_id, new_list_version) ==
    LET task_response == get_task(w, task_id)
    IN  IF task_response.status # "ok" THEN task_response
        ELSE create_task(w, [user_id |-> task_response.value[1].user_id,
                             list_id |-> task_response.value[1].list_id,
                             task_name |-> task_response.value[1].task_name,
                             reminders |-> task_response.value[1].reminders,
                             isPriority |-> task_response.value[1].isPriority,
                             isRecurring |-> task_response.value[1].isRecurring,
                             list_version |-> new_list_version])

duplicate_task(w, task_id, new_list_version) ==
    LET task_response == get_task(w, task_id)
    IN  IF task_response.status # "ok" THEN task_response
        ELSE create_task(w, [user_id |-> task_response.value[1].user_id,
                             list_id |-> task_response.value[1].list_id,
                             task_name |-> task_response.value[1].task_name,
                             reminders |-> <<>>,
                             isPriority |-> task_response.value[1].isPriority,
                             isRecurring |-> task_response.value[1].isRecurring,
                             list_version |-> new_list_version])

\* toggle_completion / toggle_recurring / toggle_priority differ only in the
\* flag they negate. The whole task is dumped into the TaskUpdate, so every
\* field is "set"; any exception of update_task is swallowed and answered with
\* a {"message": ...} dictionary.
toggle(w, task_id, flag) ==
    LET task == get_task(w, task_id)
    IN  IF task.status # "ok" THEN task
        ELSE LET toggled_task == [task.value[1] EXCEPT ![flag] = ~@]
                 updated == update_task(w, toggled_task.user_id, toggled_task.task_id,
                                        toggled_task)
             IN  IF updated.status # "ok" THEN Outcome("message", updated.w, <<>>)
                 ELSE get_task(updated.w, task_id)

\* A faulty toggle_completion: the task is marked complete instead of having
\* its flag negated.
toggle_completion_marks_complete(w, task_id) ==
    LET task == get_task(w, task_id)
    IN  IF task.status # "ok" THEN task
        ELSE LET toggled_task == [task.value[1] EXCEPT !.isComplete = TRUE]
                 updated == update_task(w, toggled_task.user_id, toggled_task.task_id,
                                        toggled_task)
             IN  IF updated.status # "ok" THEN Outcome("message", updated.w, <<>>)
                 ELSE get_task(updated.w, task_id)

toggle_completion(w, task_id) == toggle(w, task_id, "isComplete")
toggle_recurring(w, task_id) == toggle(w, task_id, "isRecurring")
toggle_priority(w, task_id) == toggle(w, task_id, "isPriority")

\* A faulty get_current_tasks_from_list: the version is left out of the
\* filter.
get_current_tasks_from_list_any_version(w, list_id) ==
    LET list_response == get_list(w, list_id)
    IN  IF list_response.status # "ok" THEN list_response
        ELSE Outcome("ok", w, Find(w.tasks, [list_id |-> list_id]))

get_current_tasks_from_list(w, list_id) ==
    LET list_response == get_list(w, list_id)
    IN  IF list_response.status # "ok" THEN list_response
        ELSE Outcome("ok", w,
                     Find(w.tasks, [list_id |-> list_id,
                                    list_version |-> list_response.value[1].version]))

\* find(filter, projection) with projection {"list_version": v}: a truthy v
\* keeps only that field, v = 0 drops it.
Projected(doc, field, v) ==
    IF v # 0 THEN [f \in {field} |-> doc[f]]
    ELSE [f \in DOMAIN doc \ {field} |-> doc[f]]

\* _get_tasks_from_list_version calls list_exists(list_id) with the id as the
\* first positional argument, which is user_id: list_exists gets no list_id
\* and no list_name and raises InvalidParameters. Past that call, the method
\* passes {"list_version": list_version} as the second argument of find,
\* which is the projection, not part of the filter.
get_tasks_from_list_version(w, list_id, list_version) ==
    LET exists == list_exists(w, list_id, "", 0)
    IN  IF exists.status # "ok" THEN exists
        ELSE IF ~exists.value[1] THEN Outcome("ListNotFoundError", w, <<>>)
        ELSE LET list_response == get_list(w, list_id)
             IN  IF list_version < 0 \/ list_version > list_response.value[1].version
                 THEN Outcome("InvalidVersionRequest", w, <<>>)
                 ELSE LET found == Find(w.tasks, [list_id |-> list_id])
                          docs == [i \in 1..Len(found) |->
                                      Projected(found[i], "list_version", list_version)]
                      IN  IF \E i \in 1..Len(docs) : ~ValidTaskResponse(docs[i])
                          THEN Outcome("ValidationError", w, <<>>)
                          ELSE Outcome("ok", w, docs)

\* The loop "for page in range(page_start, page_end): response.append(
\* self._get_tasks_from_list_version(list_id, page))" from `page` on; the
\* first exception ends the call.
RECURSIVE versions_from(_, _, _, _)
versions_from(w, list_id, page, page_end) ==
    IF page >= page_end THEN Outcome("ok", w, <<>>)
    ELSE LET one == get_tasks_from_list_version(w, list_id, page)
         IN  IF one.status # "ok" THEN one
             ELSE LET rest == versions_from(w, list_id, page + 1, page_end)
                  IN  IF rest.status # "ok" THEN rest
                      ELSE Outcome("ok", w, <<one.value>> \o rest.value)

\* get_versions_of_list compares the list's version with itself, never with
\* page_start or page_end: the check cannot fail.
get_versions_of_list(w, list_id, page_start, page_end) ==
    LET list_response == get_list(w, list_id)
    IN  IF list_response.status # "ok" THEN list_response
        ELSE LET list_version == list_response.value[1].version
             IN  IF list_version < 0 \/ list_version > list_response.value[1].version
                 THEN Outcome("InvalidVersionRequest", w, <<>>)
                 ELSE versions_from(w, list_id, page_start, page_end)

\* The carry-forward test of the loop in clear_list ("clear_list") and in
\* rollover_list ("rollover_list").
carries_forward(op, task) ==
    IF op = "clear_list" THEN task.isRecurring
    ELSE task.isRecurring \/ ~task.isComplete

\* The loop "for task in tasks: if ...: self._duplicate_task(task.task_id,
\* new_list_version)" from its i-th iteration on. An exception ends the call
\* where it is raised: the duplicates made so far stay.
RECURSIVE duplicate_from(_, _, _, _, _)
duplicate_from(w, op, snapshot, i, new_list_version) ==
    IF i > Len(snapshot) THEN Outcome("ok", w, <<>>)
    ELSE IF ~carries_forward(op, snapshot[i])
    THEN duplicate_from(w, op, snapshot, i + 1, new_list_version)
    ELSE LET d == duplicate_task(w, snapshot[i].task_id, new_list_version)
         IN  IF d.status # "ok" THEN d
             ELSE duplicate_from(d.w, op, snapshot, i + 1, new_list_version)

\* A faulty clear_list / rollover_list: the version is raised before the
\* current tasks are looked at.
version_transition_bump_first(w, op, list_id) ==
    LET current == get_current_tasks_from_list(w, list_id)
        new_list == increment_version(w, list_id)
    IN  IF current.status # "ok" THEN current
        ELSE IF new_list.status # "ok" THEN new_list
        ELSE IF Len(current.value) = 0 THEN Outcome("NoTasksToRemove", new_list.w, <<>>)
        ELSE LET done == duplicate_from(new_list.w, op, current.value, 1,
                                        new_list.value[1].version)
             IN  IF done.status # "ok" THEN done
                 ELSE get_current_tasks_from_list(done.w, list_id)

\* clear_list and rollover_list are the same method up to carries_forward.
version_transition(w, op, list_id) ==
    LET current == get_current_tasks_from_list(w, list_id)
    IN  IF current.status # "ok" THEN current
        ELSE IF Len(current.value) = 0 THEN Outcome("NoTasksToRemove", w, <<>>)
        ELSE LET new_list == increment_version(w, list_id)
             IN  IF new_list.status # "ok" THEN new_list
                 ELSE LET done == duplicate_from(new_list.w, op, current.value, 1,
                                                 new_list.value[1].version)
                      IN  IF done.status # "ok" THEN done
                          ELSE get_current_tasks_from_list(done.w, list_id)

clear_list(w, list_id) == version_transition(w, "clear_list", list_id)
rollover_list(w, list_id) == version_transition(w, "rollover_list", list_id)

\* -------------------------------------------------------------- HTTP layer
\* handle_task_exceptions: the status of the HTTPException raised for an
\* exception of the given name; the last clause is "except Exception".
handle_task_exceptions(error) ==
    CASE error = "TaskNotFoundError" -> 404
      [] error = "FailedToDeleteTaskError" -> 500
      [] error = "InvalidVersionRequest" -> 400
      [] error = "ToggleIncompleteError" -> 400
      [] error = "NoTasksToRemove" -> 400
      [] OTHER -> 500

\* handle_list_exceptions, likewise.
handle_list_exceptions(error) ==
    CASE error = "ListNotFoundError" -> 404
      [] error = "FailedToDeleteList" -> 500
      [] error = "InvalidParameters" -> 400
      [] error = "NoFieldsToUpdateError" -> 400
      [] OTHER -> 500

\* ------------------------------------------------------------ state machine
\* No clear_list / rollover_list call is in flight.
Idle == [op |-> "idle", list_id |-> 0, snapshot |-> <<>>, i |-> 0,
         old_version |-> 0, new_list_version |-> 0, created |-> {}]

Init ==
    /\ users = <<>>
    /\ lists = <<>>
    /\ tasks = <<>>
    /\ nextUser = 1
    /\ nextList = 1
    /\ nextTask = 1
    /\ call = Idle

\* The stores become those of a method's outcome.
Store(w) ==
    /\ users' = w.users
    /\ lists' = w.lists
    /\ tasks' = w.tasks
    /\ nextUser' = w.nextUser
    /\ nextList' = w.nextList
    /\ nextTask' = w.nextTask

\* A whole call of a service method, made while no version transition is in
\* flight. A call that raises before it writes leaves the stores as they are.
Handle(r) ==
    /\ call = Idle
    /\ Store(r.w)
    /\ UNCHANGED call

\* The version of the list get_list(list_id) returns, 0 if there is none.
VersionOf(w, list_id) ==
    LET r == get_list(w, list_id)
    IN  IF r.status = "ok" THEN r.value[1].version ELSE 0

\* The TaskCreate payloads the model draws from: two names, the second with a
\* reminder set; the version is any the model's lists can take, so also one
\* the list has not reached yet (create_task stores it as given).
TaskTexts == { [task_name |-> "a", reminders |-> <<>>],
               [task_name |-> "b", reminders |-> <<1>>] }

TaskDrafts ==
    { [user_id |-> u, list_id |-> l, task_name |-> t.task_name,
       reminders |-> t.reminders, isPriority |-> p, isRecurring |-> r,
       list_version |-> v] :
      u \in OwnerIds, l \in OwnerListIds, t \in TaskTexts, p \in BOOLEAN,
      r \in BOOLEAN, v \in 1..MaxVersion }

CreateUser(d) ==
    /\ nextUser <= MaxUsers
    /\ Handle(create_user(World, d))

DeleteUser(u) == Handle(delete_user(World, u))

CreateList(owner) ==
    /\ nextList <= MaxLists
    /\ Handle(create_list(World, [user_id |-> owner, list_name |-> "todo"]))

IncrementVersion(l) ==
    /\ VersionOf(World, l) < MaxVersion
    /\ Handle(increment_version(World, l))

CreateTask(d) ==
    /\ nextTask <= MaxTasks
    /\ Handle(create_task(World, d))

\* The TaskUpdate payloads the model draws from (the fields the caller set): a
\* new name, a completion mark, and a list_version, which TaskUpdate accepts
\* like any other field.
TaskPartials ==
    { [task_name |-> "b"], [isComplete |-> TRUE] }
        \cup { [list_version |-> v] : v \in 1..MaxVersion }

UpdateTask(u, t, p) == Handle(update_task(World, u, t, p))

DeleteTask(t) == Handle(delete_task(World, t))

ToggleCompletion(t) == Handle(toggle_completion(World, t))
ToggleRecurring(t) == Handle(toggle_recurring(World, t))
TogglePriority(t) == Handle(toggle_priority(World, t))

\* The call stays within the model's bounds: the version can still be raised
\* and, with the duplicates, at most twice MaxTasks tasks have been created.
WithinBounds(l, r) ==
    /\ VersionOf(World, l) < MaxVersion
    /\ r.w.nextTask <= 2 * MaxTasks + 1

ClearList(l) ==
    /\ WithinBounds(l, clear_list(World, l))
    /\ Handle(clear_list(World, l))

RolloverList(l) ==
    /\ WithinBounds(l, rollover_list(World, l))
    /\ Handle(rollover_list(World, l))

\* The task engine: one account (signed up once, possibly deleted), its one
\* list, and every task operation on it.
Next ==
    \/ /\ nextUser \in OwnerIds
       /\ CreateUser(FirstDraft)
    \/ \E u \in OwnerIds : DeleteUser(u)
    \/ /\ nextList \in OwnerListIds
       /\ \E u \in OwnerIds : CreateList(u)
    \/ \E l \in OwnerListIds : IncrementVersion(l)
    \/ \E d \in TaskDrafts : CreateTask(d)
    \/ \E u \in OwnerIds : \E t \in TaskIds : \E p \in TaskPartials : UpdateTask(u, t, p)
    \/ \E t \in TaskIds : DeleteTask(t)
    \/ \E t \in TaskIds : ToggleCompletion(t)
    \/ \E t \in TaskIds : ToggleRecurring(t)
    \/ \E t \in TaskIds : TogglePriority(t)
    \/ \E l \in OwnerListIds : ClearList(l)
    \/ \E l \in OwnerListIds : RolloverList(l)

Spec == Init /\ [][Next]_vars


\* ------------------------------------------- clear_list / rollover_list, stepwise
\* The same two methods one store access at a time: `call` is the position of
\* the call in flight. i = 0: the current tasks are read and the version is
\* not raised yet; i in 1..Len(snapshot): the loop is at snapshot[i];
\* i > Len(snapshot): the loop is over. `created` collects the ids of the
\* duplicates the call has inserted.
\* The result of one step: the stores and the call's position after it.
Step(w, c) == [w |-> w, call |-> c]

\* tasks = self.get_current_tasks_from_list(list_id) and the emptiness check.
begin_transition(w, op, list_id) ==
    LET current == get_current_tasks_from_list(w, list_id)
    IN  IF current.status # "ok" \/ Len(current.value) = 0 THEN Step(w, Idle)
        ELSE Step(w, [op |-> op, list_id |-> list_id, snapshot |-> current.value,
                      i |-> 0, old_version |-> VersionOf(w, list_id),
                      new_list_version |-> 0, created |-> {}])

\* A faulty version step: the new version number is taken without the list
\* being written.
bump_version_not_committed(w, c) ==
    Step(w, [c EXCEPT !.i = 1, !.new_list_version = c.old_version + 1])

\* new_list = self.list_service.increment_version(list_id);
\* new_list_version = new_list.version. An exception ends the call.
bump_version(w, c) ==
    LET new_list == increment_version(w, c.list_id)
    IN  IF new_list.status # "ok" THEN Step(new_list.w, Idle)
        ELSE Step(new_list.w,
                  [c EXCEPT !.i = 1, !.new_list_version = new_list.value[1].version])

\* One iteration of the loop over the tasks read at the start.
duplicate_step(w, c) ==
    IF ~carries_forward(c.op, c.snapshot[c.i]) THEN Step(w, [c EXCEPT !.i = @ + 1])
    ELSE LET d == duplicate_task(w, c.snapshot[c.i].task_id, c.new_list_version)
         IN  IF d.status # "ok" THEN Step(d.w, Idle)
             ELSE Step(d.w, [c EXCEPT !.i = @ + 1,
                                      !.created = @ \cup {d.value[1].task_id}])

\* The stores and the call's position become those of a step's result.
Take(s) ==
    /\ Store(s.w)
    /\ call' = s.call

BeginTransition(op, l) ==
    /\ call = Idle
    /\ WithinBounds(l, version_transition(World, op, l))
    /\ begin_transition(World, op, l).call # Idle
    /\ Take(begin_transition(World, op, l))

BumpVersion ==
    /\ call # Idle
    /\ call.i = 0
    /\ Take(bump_version(World, call))

DuplicateStep ==
    /\ call # Idle
    /\ call.i \in 1..Len(call.snapshot)
    /\ Take(duplicate_step(World, call))

\* return self.get_current_tasks_from_list(list_id)
FinishTransition ==
    /\ call # Idle
    /\ call.i > Len(call.snapshot)
    /\ Take(Step(World, Idle))

\* The call is abandoned where it stands (the request is cancelled, the
\* process dies): nothing it wrote is undone.
AbandonTransition ==
    /\ call # Idle
    /\ Take(Step(World, Idle))

\* The task engine with clear_list / rollover_list taken step by step; the
\* other calls are served between two transitions.
NextSteps ==
    \/ /\ nextUser \in OwnerIds
       /\ CreateUser(FirstDraft)
    \/ \E u \in OwnerIds : DeleteUser(u)
    \/ /\ nextList \in OwnerListIds
       /\ \E u \in OwnerIds : CreateList(u)
    \/ \E l \in OwnerListIds : IncrementVersion(l)
    \/ \E d \in TaskDrafts : CreateTask(d)
    \/ \E u \in OwnerIds : \E t \in TaskIds : \E p \in TaskPartials : UpdateTask(u, t, p)
    \/ \E t \in TaskIds : DeleteTask(t)
    \/ \E t \in TaskIds : ToggleCompletion(t)
    \/ \E t \in TaskIds : ToggleRecurring(t)
    \/ \E t \in TaskIds : TogglePriority(t)
    \/ \E l \in OwnerListIds : \E op \in {"clear_list", "rollover_list"} :
          BeginTransition(op, l)
    \/ BumpVersion
    \/ DuplicateStep
    \/ FinishTransition
    \/ AbandonTransition

SpecSteps == Init /\ [][NextSteps]_vars


\* ------------------------------------------------------------ list sharing
\* The visibility values an update may carry: the three levels, the empty
\* string (falsy, so never validated) and a value outside the enumeration.
VisibilityInputs == ListVisibilityLevel \cup {"", "FRIENDS"}

\* The ListUpdate payloads the model draws from (the fields the caller set): a
\* visibility, or a version, which ListUpdate accepts like any other field.
ListPartials ==
    { [visibility |-> v] : v \in VisibilityInputs }
        \cup { [version |-> n] : n \in 1..MaxVersion }

UpdateList(l, p) == Handle(update_list(World, l, p))

DeleteList(l) == Handle(delete_list(World, l))

\* A read: the stores are as before whatever the answer.
GetListWithShareToken(token, requester) ==
    Handle(get_list_with_share_token(World, token, requester))

\* Accounts and lists: any of the sign-ups, lists of any owner id, visibility
\* changes, deletions, and look-ups by share token.
NextShare ==
    \/ \E d \in UserDrafts : CreateUser(d)
    \/ \E u \in UserIds : DeleteUser(u)
    \/ \E u \in UserIds : CreateList(u)
    \/ \E l \in ListIds : \E p \in ListPartials : UpdateList(l, p)
    \/ \E l \in ListIds : IncrementVersion(l)
    \/ \E l \in ListIds : DeleteList(l)
    \/ \E token \in ListIds : \E u \in UserIds : GetListWithShareToken(token, u)

SpecShare == Init /\ [][NextShare]_vars


\* ------------------------------------------------------------------ accounts
\* The signup payloads of the account model: every combination of a few
\* usernames, e-mail addresses and phone numbers, so that two payloads may
\* agree in one field and differ in the others. UserCreate requires an "@" in
\* the e-mail and accepts any string, the empty one included, as username and
\* phone number.
SignupDrafts ==
    { [username |-> n, email |-> e, phone_number |-> ph, google_id |-> "g1"] :
        n \in {"ann", "bob", ""},
        e \in {Mail("a", "x"), Mail("b", "y")},
        ph \in {"p1", "p2", ""} }

\* The dumps of UserUpdate the account model draws from: one field set.
UserPartials ==
    {[username |-> n] : n \in {"ann", "bob"}}
    \cup {[email |-> e] : e \in {Mail("a", "x"), Mail("b", "y")}}
    \cup {[phone_number |-> ph] : ph \in {"p1", "p2"}}

UpdateUser(u, p) == Handle(update_user(World, u, p))

\* Accounts alone: sign-ups with any of the payloads, updates and deletions.
NextUsers ==
    \/ \E d \in SignupDrafts : CreateUser(d)
    \/ \E u \in UserIds : \E p \in UserPartials : UpdateUser(u, p)
    \/ \E u \in UserIds : DeleteUser(u)

SpecUsers == Init /\ [][NextUsers]_vars

\* ------------------------------------------------------- concurrent callers
\* Two requests served at the same time: each runs one service method, one
\* store operation (find_one, find, update_one, delete_one, insert_one) per
\* step, and the steps of the two interleave freely. While a race is on,
\* `call` holds the stores as they were when it began (before) and each
\* caller's position (run). A caller's position: the method and its
\* arguments, the statement it is at (pc), what it has read (seen, snapshot),
\* the loop index, and, once it is over, the exception's name or "ok"
\* (status) and the returned documents (value).
Callers == {1, 2}

Local(op, list_id, task_id) ==
    [op |-> op, pc |-> "start", list_id |-> list_id, task_id |-> task_id,
     seen |-> <<>>, snapshot |-> <<>>, i |-> 0, new_list_version |-> 0,
     status |-> "running", value |-> <<>>]

\* The caller moves on to statement pc / returns or raises.
Goto(w, c, pc) == Step(w, [c EXCEPT !.pc = pc])
Finish(w, c, status, value) ==
    Step(w, [c EXCEPT !.pc = "done", !.status = status, !.value = value])

\* A faulty delete_list: deleted_count is not looked at.
delete_list_step_count_ignored(w, c) ==
    IF c.pc = "start"
    THEN IF FindOneIndex(w.lists, [list_id |-> c.list_id]) = 0
         THEN Finish(w, c, "ListNotFoundError", <<>>)
         ELSE Goto(w, c, "delete")
    ELSE Finish([w EXCEPT !.lists = DeleteOne(@, [list_id |-> c.list_id])], c, "ok", <<>>)

\* delete_list: list_exists (find_one), then delete_one and the check of its
\* deleted_count.
delete_list_step(w, c) ==
    IF c.pc = "start"
    THEN IF FindOneIndex(w.lists, [list_id |-> c.list_id]) = 0
         THEN Finish(w, c, "ListNotFoundError", <<>>)
         ELSE Goto(w, c, "delete")
    ELSE IF FindOneIndex(w.lists, [list_id |-> c.list_id]) = 0
         THEN Finish(w, c, "FailedToDeleteList", <<>>)
         ELSE Finish([w EXCEPT !.lists = DeleteOne(@, [list_id |-> c.list_id])],
                     c, "ok", <<>>)

\* The first index from `from` on whose task the loop duplicates, past the
\* end if there is none.
NextCarried(c, from) ==
    IF \E k \in from..Len(c.snapshot) : carries_forward(c.op, c.snapshot[k])
    THEN CHOOSE k \in from..Len(c.snapshot) :
            /\ carries_forward(c.op, c.snapshot[k])
            /\ \A j \in from..(k - 1) : ~carries_forward(c.op, c.snapshot[j])
    ELSE Len(c.snapshot) + 1

\* The loop goes on with the next task it duplicates, or is over.
LoopFrom(w, c, from) ==
    LET k == NextCarried(c, from)
    IN  Step(w, [c EXCEPT !.i = k,
                          !.pc = IF k > Len(c.snapshot) THEN "final.list" ELSE "dup.read"])

\* increment_version: get_list (inc.read), update_list's list_exists
\* (inc.check), its update_one with the version read + 1 (inc.write), its
\* get_list (inc.reread), and the get_list whose result is returned
\* (inc.return). Inside clear_list / rollover_list the returned version is
\* new_list_version and the loop starts.
increment_version_step(w, c) ==
    LET i == FindOneIndex(w.lists, [list_id |-> c.list_id])
    IN  IF c.pc = "inc.write"
        THEN Goto([w EXCEPT !.lists = UpdateOne(@, [list_id |-> c.list_id],
                                                [version |-> c.seen[1].version + 1])],
                  c, "inc.reread")
        ELSE IF i = 0 THEN Finish(w, c, "ListNotFoundError", <<>>)
        ELSE IF c.pc = "inc.read"
        THEN Step(w, [c EXCEPT !.seen = <<w.lists[i]>>, !.pc = "inc.check"])
        ELSE IF c.pc = "inc.check" THEN Goto(w, c, "inc.write")
        ELSE IF c.pc = "inc.reread" THEN Goto(w, c, "inc.return")
        ELSE IF c.op = "increment_version" THEN Finish(w, c, "ok", <<w.lists[i]>>)
        ELSE LoopFrom(w, [c EXCEPT !.new_list_version = w.lists[i].version], 1)

\* _duplicate_task: get_task (dup.read), then create_task: user_exists
\* (dup.user), list_exists (dup.list), insert_one (dup.insert).
duplicate_task_step(w, c) ==
    IF c.pc = "dup.read"
    THEN LET task_response == get_task(w, c.snapshot[c.i].task_id)
         IN  IF task_response.status # "ok"
             THEN Finish(w, c, task_response.status, <<>>)
             ELSE Step(w, [c EXCEPT !.seen = task_response.value, !.pc = "dup.user"])
    ELSE IF c.pc = "dup.user"
    THEN IF ~user_id_exists(w, c.seen[1].user_id)
         THEN Finish(w, c, "UserNotFoundError", <<>>)
         ELSE Goto(w, c, "dup.list")
    ELSE IF c.pc = "dup.list"
    THEN LET exists == list_exists(w, 0, "", c.seen[1].list_id)
         IN  IF exists.status # "ok" THEN Finish(w, c, exists.status, <<>>)
             ELSE IF ~exists.value[1] THEN Finish(w, c, "ListNotFoundError", <<>>)
             ELSE Goto(w, c, "dup.insert")
    ELSE LET task_doc == [user_id |-> c.seen[1].user_id,
                          list_id |-> c.seen[1].list_id,
                          task_id |-> w.nextTask,
                          task_name |-> c.seen[1].task_name,
                          reminders |-> <<>>,
                          isComplete |-> FALSE,
                          isPriority |-> c.seen[1].isPriority,
                          isRecurring |-> c.seen[1].isRecurring,
                          list_version |-> c.new_list_version]
         IN  LoopFrom([w EXCEPT !.tasks = Append(@, task_doc), !.nextTask = @ + 1],
                      c, c.i + 1)

\* clear_list / rollover_list: get_current_tasks_from_list is get_list
\* (start) and find (current); then increment_version, the loop, and
\* get_current_tasks_from_list again (final.list, final.tasks).
version_transition_step(w, c) ==
    LET i == FindOneIndex(w.lists, [list_id |-> c.list_id])
    IN  IF c.pc \in {"start", "final.list"}
        THEN IF i = 0 THEN Finish(w, c, "ListNotFoundError", <<>>)
             ELSE Step(w, [c EXCEPT !.seen = <<w.lists[i]>>,
                                    !.pc = IF c.pc = "start" THEN "current"
                                           ELSE "final.tasks"])
        ELSE IF c.pc \in {"current", "final.tasks"}
        THEN LET found == Find(w.tasks, [list_id |-> c.list_id,
                                         list_version |-> c.seen[1].version])
             IN  IF c.pc = "final.tasks" THEN Finish(w, c, "ok", found)
                 ELSE IF Len(found) = 0 THEN Finish(w, c, "NoTasksToRemove", <<>>)
                 ELSE Step(w, [c EXCEPT !.snapshot = found, !.pc = "inc.read"])
        ELSE IF c.pc \in {"inc.read", "inc.check", "inc.write", "inc.reread", "inc.return"}
        THEN increment_version_step(w, c)
        ELSE duplicate_task_step(w, c)

\* The flag each toggle method negates.
FlagNames ==
    [toggle_completion |-> "isComplete", toggle_recurring |-> "isRecurring",
     toggle_priority |-> "isPriority"]

FlagOf(op) == FlagNames[op]

\* toggle_*: get_task (start), then update_task inside the try: user_exists
\* (upd.user), find_one (upd.find), update_one on the user's first task with
\* the whole toggled task (upd.write), get_task (upd.reread); then the
\* get_task whose result is returned (return). An exception inside the try
\* is answered with the message dictionary.
toggle_step(w, c) ==
    IF c.pc = "start"
    THEN LET task == get_task(w, c.task_id)
         IN  IF task.status # "ok" THEN Finish(w, c, task.status, <<>>)
             ELSE Step(w, [c EXCEPT !.seen = <<[task.value[1] EXCEPT ![FlagOf(c.op)] = ~@]>>,
                                    !.pc = "upd.user"])
    ELSE IF c.pc = "upd.user"
    THEN IF ~user_id_exists(w, c.seen[1].user_id) THEN Finish(w, c, "message", <<>>)
         ELSE Goto(w, c, "upd.find")
    ELSE IF c.pc = "upd.find"
    THEN IF FindOneIndex(w.tasks, [task_id |-> c.seen[1].task_id]) = 0
         THEN Finish(w, c, "message", <<>>)
         ELSE Goto(w, c, "upd.write")
    ELSE IF c.pc = "upd.write"
    THEN Goto([w EXCEPT !.tasks = UpdateOne(@, [user_id |-> c.seen[1].user_id], c.seen[1])],
              c, "upd.reread")
    ELSE IF c.pc = "upd.reread"
    THEN IF get_task(w, c.seen[1].task_id).status # "ok" THEN Finish(w, c, "message", <<>>)
         ELSE Goto(w, c, "return")
    ELSE LET task == get_task(w, c.task_id)
         IN  Finish(w, c, task.status, task.value)

\* One store operation of a caller.
race_step(w, c) ==
    IF c.op = "delete_list" THEN delete_list_step(w, c)
    ELSE IF c.op = "increment_version"
    THEN increment_version_step(w, IF c.pc = "start" THEN [c EXCEPT !.pc = "inc.read"] ELSE c)
    ELSE IF c.op \in {"clear_list", "rollover_list"} THEN version_transition_step(w, c)
    ELSE toggle_step(w, c)

\* The pairs of methods raced: the same list method twice, or two different
\* toggles.
RacePairs ==
    { <<op, op>> : op \in {"delete_list", "increment_version", "clear_list", "rollover_list"} }
        \cup { <<"toggle_completion", "toggle_priority">>,
               <<"toggle_completion", "toggle_recurring">>,
               <<"toggle_recurring", "toggle_priority">> }

\* The tasks the raced list holds: current ones, recurring or not.
RaceTaskDrafts ==
    { d \in TaskDrafts : d.isPriority = FALSE /\ d.list_version = 1 }

\* One list more than the raced one may exist.
RaceCreateList(owner) ==
    /\ nextList <= MaxLists + 1
    /\ Handle(create_list(World, [user_id |-> owner, list_name |-> "todo"]))

\* Two requests for the same stored list (and, for the toggles, the same
\* stored task) arrive together.
StartRace(pair, l, t) ==
    /\ call = Idle
    /\ FindOneIndex(lists, [list_id |-> l]) # 0
    /\ IF pair[1] \in DOMAIN FlagNames
       THEN FindOneIndex(tasks, [task_id |-> t]) # 0
       ELSE t = 1
    /\ call' = [before |-> World,
                run |-> [p \in Callers |->
                            Local(pair[p], l, IF pair[p] \in DOMAIN FlagNames THEN t ELSE 0)]]
    /\ UNCHANGED <<users, lists, tasks, nextUser, nextList, nextTask>>

RaceStep(p) ==
    /\ call # Idle
    /\ call.run[p].status = "running"
    /\ LET s == race_step(World, call.run[p])
       IN  /\ Store(s.w)
           /\ call' = [call EXCEPT !.run[p] = s.call]

\* The stores are set up by whole calls; then one race runs to its end.
NextRace ==
    \/ /\ nextUser \in OwnerIds
       /\ CreateUser(FirstDraft)
    \/ \E u \in OwnerIds : RaceCreateList(u)
    \/ \E d \in RaceTaskDrafts : CreateTask(d)
    \/ \E pair \in RacePairs : \E l \in OwnerListIds : \E t \in TaskIds : StartRace(pair, l, t)
    \/ \E p \in Callers : RaceStep(p)

SpecRace == Init /\ [][NextRace]_vars

\* -------------------------------------------------------------- properties
\* The calls that raise a list's version.
VersionCalls == {"increment_version", "clear_list", "rollover_list"}

\* One call of a version-raising method on a list.
VersionCall(w, op, list_id) ==
    IF op = "increment_version" THEN increment_version(w, list_id)
    ELSE IF op = "clear_list" THEN clear_list(w, list_id)
    ELSE rollover_list(w, list_id)

\* The calls ops[1], ops[2], ... made one after another on a list, each on the
\* stores the previous one left; the run stops at the first call that raises.
RECURSIVE CallsInTurn(_, _, _)
CallsInTurn(w, ops, list_id) ==
    IF ops = <<>> THEN Outcome("ok", w, <<>>)
    ELSE LET r == VersionCall(w, Head(ops), list_id)
         IN  IF r.status # "ok" THEN r
             ELSE CallsInTurn(r.w, Tail(ops), list_id)

\* The runs of at most MaxCalls calls.
CallRuns == UNION { [1..n -> VersionCalls] : n \in 0..MaxCalls }

\* C1: from every reachable state and for every list, a run of N successful
\* version-raising calls (increment_version itself, or clear_list /
\* rollover_list, which call it) made one after another leaves the list's
\* version at its value before the run plus N.
VersionMonotonicity ==
    \A l \in ListIds : \A ops \in CallRuns :
        LET r == CallsInTurn(World, ops, l)
        IN  r.status = "ok" /\ VersionOf(World, l) # 0
                => VersionOf(r.w, l) = VersionOf(World, l) + Len(ops)

\* C1 witness: a list that a transition has already taken to version 2 and on
\* which a clear_list followed by an increment_version both succeed.
VersionMonotonicityWitness ==
    \E l \in ListIds :
        /\ VersionOf(World, l) = 2
        /\ CallsInTurn(World, <<"clear_list", "increment_version">>, l).status = "ok"

\* The tasks of a sequence that satisfy / fail isRecurring, in order.
RecurringOf(ts) ==
    LET Test(t) == t.isRecurring
    IN  SelectSeq(ts, Test)

NonRecurringOf(ts) ==
    LET Test(t) == ~t.isRecurring
    IN  SelectSeq(ts, Test)

\* d is what duplicating s onto version v gives: a new id, version v, no
\* reminders, not complete, the other fields those of s.
DuplicateOf(d, s, v) ==
    /\ d.task_id # s.task_id
    /\ d.list_version = v
    /\ d.reminders = <<>>
    /\ d.isComplete = FALSE
    /\ d.user_id = s.user_id
    /\ d.list_id = s.list_id
    /\ d.task_name = s.task_name
    /\ d.isPriority = s.isPriority
    /\ d.isRecurring = s.isRecurring

\* dups holds exactly one duplicate per task of sources and nothing else.
OneDuplicateEach(dups, sources, v) ==
    /\ Len(dups) = Len(sources)
    /\ \E f \in [1..Len(sources) -> 1..Len(dups)] :
          /\ \A i, j \in 1..Len(sources) : f[i] = f[j] => i = j
          /\ \A i \in 1..Len(sources) : DuplicateOf(dups[f[i]], sources[i], v)

\* The task ids of a sequence of task documents.
TaskIdsOf(ts) == { ts[i].task_id : i \in 1..Len(ts) }

\* C2: after a successful clear_list(list_id) in any reachable state, the
\* returned collection is get_current_tasks_from_list(list_id) at the new
\* version and holds exactly one duplicate per task that was current and
\* recurring before the call and nothing else; the tasks that were current and
\* non-recurring are not in it, and _get_tasks_from_list_version at the old
\* version still returns them.
ClearListRecurrence ==
    \A l \in ListIds :
        LET before == get_current_tasks_from_list(World, l)
            r == clear_list(World, l)
            after == get_current_tasks_from_list(r.w, l)
            archived == get_tasks_from_list_version(r.w, l, VersionOf(World, l))
        IN  r.status = "ok" =>
              /\ after.status = "ok"
              /\ r.value = after.value
              /\ VersionOf(r.w, l) = VersionOf(World, l) + 1
              /\ OneDuplicateEach(r.value, RecurringOf(before.value), VersionOf(r.w, l))
              /\ TaskIdsOf(NonRecurringOf(before.value)) \cap TaskIdsOf(r.value) = {}
              /\ archived.status = "ok"
              /\ TaskIdsOf(NonRecurringOf(before.value)) \subseteq TaskIdsOf(archived.value)

\* The tasks of a sequence that rollover_list carries forward, in order.
RolledOverOf(ts) ==
    LET Test(t) == t.isRecurring \/ ~t.isComplete
    IN  SelectSeq(ts, Test)

\* C3: after a successful rollover_list(list_id), the list's current tasks
\* are exactly one duplicate per previously current task that was recurring or
\* not complete; the previously current tasks left without a duplicate are
\* those both non-recurring and complete.
RolloverRecurrence ==
    \A l \in ListIds :
        LET before == get_current_tasks_from_list(World, l)
            r == rollover_list(World, l)
            after == get_current_tasks_from_list(r.w, l)
        IN  r.status = "ok" =>
              /\ after.status = "ok"
              /\ VersionOf(r.w, l) = VersionOf(World, l) + 1
              /\ OneDuplicateEach(after.value, RolledOverOf(before.value),
                                  VersionOf(r.w, l))

\* The list exists and has no task at its current version.
NoCurrentTasks(w, list_id) ==
    LET current == get_current_tasks_from_list(w, list_id)
    IN  current.status = "ok" /\ current.value = <<>>

\* C4: clear_list and rollover_list on a list with zero tasks at its current
\* version both raise NoTasksToRemove and leave the list's version and the
\* stored tasks exactly as they were.
EmptyListGuard ==
    \A l \in ListIds : \A op \in {"clear_list", "rollover_list"} :
        NoCurrentTasks(World, l) =>
            LET r == version_transition(World, op, l)
            IN  /\ r.status = "NoTasksToRemove"
                /\ VersionOf(r.w, l) = VersionOf(World, l)
                /\ r.w.tasks = tasks
                /\ r.w.lists = lists

\* C4 witness: a list already taken to version 2 whose earlier tasks are all
\* archived, so that it holds stored tasks but no current one, and on which
\* clear_list raises NoTasksToRemove.
EmptyListGuardWitness ==
    \E l \in ListIds :
        /\ VersionOf(World, l) = 2
        /\ Find(tasks, [list_id |-> l]) # <<>>
        /\ NoCurrentTasks(World, l)
        /\ clear_list(World, l).status = "NoTasksToRemove"

\* The versions a duplicate is asked for: any a list of the model can take,
\* and one beyond.
NewVersions == 0..(MaxVersion + 1)

\* C6: every task _duplicate_task(task_id, new_list_version) creates has a
\* fresh task_id, list_version = new_list_version, empty reminders and
\* isComplete = false whatever the source's reminders and completion, and has
\* the source's user_id, list_id, task_name, isPriority and isRecurring; it is
\* the one document the call adds.
DuplicateForward ==
    \A t \in TaskIds : \A v \in NewVersions :
        LET source == get_task(World, t)
            r == duplicate_task(World, t, v)
        IN  r.status = "ok" =>
              /\ source.status = "ok"
              /\ r.value[1].task_id \notin TaskIdsOf(tasks)
              /\ DuplicateOf(r.value[1], source.value[1], v)
              /\ r.w.tasks = Append(tasks, r.value[1])

\* C6 witness: a stored task that is complete and has a reminder, and whose
\* duplication succeeds.
DuplicateForwardWitness ==
    \E t \in TaskIds : \E v \in NewVersions :
        LET source == get_task(World, t)
        IN  /\ source.status = "ok"
            /\ source.value[1].reminders # <<>>
            /\ source.value[1].isComplete
            /\ source.value[1].isPriority
            /\ duplicate_task(World, t, v).status = "ok"

\* The three flags a toggle names.
Flags == {"isComplete", "isPriority", "isRecurring"}

\* C10: for every stored task whose owner exists, whatever other tasks the
\* same user owns, each of toggle_completion, toggle_priority and
\* toggle_recurring negates exactly the named flag of the task with that
\* task_id and returns that task; its other fields and every field of every
\* other stored task are unchanged.
ToggleFrame ==
    \A t \in TaskIds : \A flag \in Flags :
        LET i == FindOneIndex(tasks, [task_id |-> t])
            r == toggle(World, t, flag)
        IN  i # 0 /\ user_id_exists(World, tasks[i].user_id) =>
              /\ r.status = "ok"
              /\ r.w.tasks = [tasks EXCEPT ![i][flag] = ~@]
              /\ r.value = <<r.w.tasks[i]>>

\* C5: within one clear_list / rollover_list call the version write comes
\* before any duplicate: at every intermediate state of the call, so also
\* where it may be abandoned, no duplicate of the call exists while the list
\* still has its pre-call version, and every duplicate the call has inserted
\* carries the version that the call's increment_version produced, which is
\* the version the list now has.
VersionBeforeDuplicates ==
    call # Idle =>
        /\ VersionOf(World, call.list_id) = call.old_version => call.created = {}
        /\ call.created # {} =>
              /\ call.new_list_version = call.old_version + 1
              /\ VersionOf(World, call.list_id) = call.new_list_version
        /\ \A i \in 1..Len(tasks) :
              tasks[i].task_id \in call.created =>
                  tasks[i].list_version = call.new_list_version

\* C5 witness: a call in the middle of its loop, one duplicate inserted and
\* another task still to be duplicated.
VersionBeforeDuplicatesWitness ==
    /\ call # Idle
    /\ call.created # {}
    /\ call.i \in 1..Len(call.snapshot)
    /\ carries_forward(call.op, call.snapshot[call.i])

\* The list carrying a share token, as a sequence: empty if there is none.
ListWithToken(token) ==
    LET i == FindOneIndex(lists, [share_token |-> token])
    IN  IF i = 0 THEN <<>> ELSE <<lists[i]>>

\* Both users exist and their e-mail domains differ.
DomainsDiffer(owner_id, requester_id) ==
    /\ user_id_exists(World, owner_id)
    /\ user_id_exists(World, requester_id)
    /\ domain_name(get_user(World, owner_id).value[1])
         # domain_name(get_user(World, requester_id).value[1])

\* Both users exist and their e-mail domains are equal.
DomainsEqual(owner_id, requester_id) ==
    /\ user_id_exists(World, owner_id)
    /\ user_id_exists(World, requester_id)
    /\ domain_name(get_user(World, owner_id).value[1])
         = domain_name(get_user(World, requester_id).value[1])

\* The list is closed to this requester: the requester is not the owner and
\* the list is PRIVATE, or ORGANIZATION_ONLY with differing e-mail domains.
ClosedTo(l, requester_id) ==
    /\ requester_id # l.user_id
    /\ \/ l.visibility = PRIVATE
       \/ l.visibility = ORGANIZATION_ONLY /\ DomainsDiffer(l.user_id, requester_id)

OpenTo(l, requester_id) ==
    \/ requester_id = l.user_id /\ user_id_exists(World, requester_id)
    \/ l.visibility = PUBLIC /\ user_id_exists(World, requester_id)
    \/ l.visibility = ORGANIZATION_ONLY /\ DomainsEqual(l.user_id, requester_id)

ShareNotFound ==
    \A token \in ListIds : \A requester \in UserIds :
        LET r == get_list_with_share_token(World, token, requester)
        IN  IF ListWithToken(token) = <<>> THEN r.status = "ListNotFoundError"
            ELSE ~user_id_exists(World, ListWithToken(token)[1].user_id)
                   \/ ~user_id_exists(World, requester)
                     => r.status = "UserNotFoundError"

\* C9 witness: a PUBLIC list whose owner is no longer stored, asked for with
\* the owner's id, while another user is stored.
ShareNotFoundWitness ==
    \E token \in ListIds :
        /\ ListWithToken(token) # <<>>
        /\ ListWithToken(token)[1].visibility = PUBLIC
        /\ ~user_id_exists(World, ListWithToken(token)[1].user_id)
        /\ users # <<>>
        /\ get_list_with_share_token(World, token,
                                     ListWithToken(token)[1].user_id).status
               = "UserNotFoundError"

\* The three flags of the task get_task(task_id) returns.
FlagsOf(w, task_id) ==
    LET t == get_task(w, task_id).value[1]
    IN  [f \in Flags |-> t[f]]

\* C11: for every stored task, two toggle_completion(task_id) calls in
\* succession leave the task's isComplete at its value before the first call,
\* and its isPriority and isRecurring at their original values after each of
\* the two calls; this holds of the task get_task(task_id) returns and of the
\* stored record itself.
ToggleCompletionTwice ==
    \A i \in 1..Len(tasks) :
        LET t == tasks[i].task_id
            first == toggle_completion(World, t)
            second == toggle_completion(first.w, t)
        IN  /\ FlagsOf(first.w, t).isPriority = FlagsOf(World, t).isPriority
            /\ FlagsOf(first.w, t).isRecurring = FlagsOf(World, t).isRecurring
            /\ FlagsOf(second.w, t) = FlagsOf(World, t)
            /\ first.w.tasks[i].isPriority = tasks[i].isPriority
            /\ first.w.tasks[i].isRecurring = tasks[i].isRecurring
            /\ second.w.tasks[i].isComplete = tasks[i].isComplete
            /\ second.w.tasks[i].isPriority = tasks[i].isPriority
            /\ second.w.tasks[i].isRecurring = tasks[i].isRecurring

\* C11 witness: a user with two tasks, the second one a priority task that is
\* not complete; both calls on it succeed and the first returns it complete.
ToggleCompletionTwiceWitness ==
    /\ Len(tasks) = 2
    /\ tasks[1].task_id # tasks[2].task_id
    /\ tasks[2].isPriority /\ ~tasks[2].isComplete
    /\ LET t == tasks[2].task_id
           first == toggle_completion(World, t)
       IN  /\ first.status = "ok"
           /\ first.value[1].isComplete
           /\ toggle_completion(first.w, t).status = "ok"

\* C12: update_task(user_id, task_id, partial) with an existing user, an
\* existing task and a non-empty partial writes the provided fields to the
\* task whose id is task_id and to no other task, and returns that task with
\* the provided values; also when the user owns several tasks.
UpdateFrame ==
    \A u \in UserIds : \A t \in TaskIds : \A p \in TaskPartials :
        LET i == FindOneIndex(tasks, [task_id |-> t])
            r == update_task(World, u, t, p)
        IN  user_id_exists(World, u) /\ i # 0 =>
              /\ r.status = "ok"
              /\ r.w.tasks = [tasks EXCEPT ![i] = SetFields(@, p)]
              /\ r.value = <<SetFields(tasks[i], p)>>

\* The stored tasks of a list at a version, in stored order.
TasksAt(w, list_id, v) ==
    LET Test(t) == t.list_id = list_id /\ t.list_version = v
    IN  SelectSeq(w.tasks, Test)

\* The version-raising calls and the calls that leave the version alone.
TransitionOps == {"clear_list", "rollover_list"}

\* C13: in every reachable state get_current_tasks_from_list(list_id)
\* returns exactly the stored tasks of that list whose list_version is the
\* list's version at the time of the call; after a successful clear_list or
\* rollover_list it returns no task of an older version.
CurrentTasksOnly ==
    \A l \in ListIds :
        LET current == get_current_tasks_from_list(World, l)
        IN  IF VersionOf(World, l) = 0 THEN current.status = "ListNotFoundError"
            ELSE /\ current.status = "ok"
                 /\ current.value = TasksAt(World, l, VersionOf(World, l))
                 /\ \A op \in TransitionOps :
                       LET r == version_transition(World, op, l)
                           after == get_current_tasks_from_list(r.w, l)
                       IN  r.status = "ok" =>
                             /\ after.value = TasksAt(r.w, l, VersionOf(World, l) + 1)
                             /\ \A k \in 1..Len(after.value) :
                                   after.value[k].list_version > VersionOf(World, l)
                             /\ r.value = after.value

\* C13 witness: a list at version 2 that holds tasks of version 1 and of
\* version 2, on which a further rollover_list succeeds.
CurrentTasksOnlyWitness ==
    \E l \in ListIds :
        /\ VersionOf(World, l) = 2
        /\ TasksAt(World, l, 1) # <<>>
        /\ TasksAt(World, l, 2) # <<>>
        /\ rollover_list(World, l).status = "ok"

\* The versions a query may name: from below 0 to beyond what a list of the
\* model can reach.
QueryVersions == (0 - 1)..(MaxVersion + 1)

\* The list holds tasks at more than one version.
SeveralVersions(w, list_id) ==
    \E v1, v2 \in 0..(MaxVersion + 1) :
        v1 # v2 /\ TasksAt(w, list_id, v1) # <<>> /\ TasksAt(w, list_id, v2) # <<>>

\* C14: for a list holding tasks at several versions,
\* _get_tasks_from_list_version(list_id, v) with 0 <= v <= current version
\* returns exactly the tasks of that list whose list_version is v, and no
\* task of the list at another version.
TasksAtVersionExact ==
    \A l \in ListIds : \A v \in QueryVersions :
        LET r == get_tasks_from_list_version(World, l, v)
        IN  VersionOf(World, l) # 0 /\ SeveralVersions(World, l)
                /\ 0 <= v /\ v <= VersionOf(World, l) =>
              /\ r.status = "ok"
              /\ r.value = TasksAt(World, l, v)

\* C15: _get_tasks_from_list_version(list_id, v) raises ListNotFoundError when
\* the list does not exist and InvalidVersionRequest when v < 0 or v is above
\* the list's version; a version in range is still in range after every
\* later clear_list / rollover_list.
TasksAtVersionErrors ==
    \A l \in ListIds : \A v \in QueryVersions :
        LET r == get_tasks_from_list_version(World, l, v)
        IN  IF VersionOf(World, l) = 0 THEN r.status = "ListNotFoundError"
            ELSE IF v < 0 \/ v > VersionOf(World, l)
            THEN r.status = "InvalidVersionRequest"
            ELSE /\ r.status # "InvalidVersionRequest"
                 /\ \A op \in TransitionOps :
                       LET later == version_transition(World, op, l)
                       IN  later.status = "ok" =>
                             get_tasks_from_list_version(later.w, l, v).status
                                 # "InvalidVersionRequest"

\* C16: get_versions_of_list(list_id, page_start, page_end) raises
\* InvalidVersionRequest whenever page_start < 0 or page_start is above the
\* list's version, for every page_end, page_end <= page_start included.
VersionsOfListErrors ==
    \A l \in ListIds : \A page_start \in QueryVersions : \A page_end \in QueryVersions :
        VersionOf(World, l) # 0
            /\ (page_start < 0 \/ page_start > VersionOf(World, l)) =>
                get_versions_of_list(World, l, page_start, page_end).status
                    = "InvalidVersionRequest"

\* C17: for 0 <= page_start <= page_end <= current version + 1,
\* get_versions_of_list(list_id, page_start, page_end) returns a sequence of
\* length page_end - page_start whose i-th element is what
\* _get_tasks_from_list_version(list_id, page_start + i) returns, in
\* ascending version order.
VersionsOfListPages ==
    \A l \in ListIds : \A page_start \in QueryVersions : \A page_end \in QueryVersions :
        LET r == get_versions_of_list(World, l, page_start, page_end)
        IN  VersionOf(World, l) # 0 /\ 0 <= page_start /\ page_start <= page_end
                /\ page_end <= VersionOf(World, l) + 1 =>
              /\ r.status = "ok"
              /\ Len(r.value) = page_end - page_start
              /\ \A k \in 1..(page_end - page_start) :
                    LET one == get_tasks_from_list_version(World, l, page_start + k - 1)
                    IN  one.status = "ok" /\ r.value[k] = one.value

\* C18: under every operation that keeps the stored tasks (update_task with
\* any partial, the three toggles, clear_list, rollover_list, and the others
\* that delete nothing), every stored task keeps the list_version it had: no
\* task is moved from one version to another.
ListVersionFixed ==
    [][ Len(tasks') >= Len(tasks) =>
            \A i \in 1..Len(tasks) : tasks'[i].list_version = tasks[i].list_version ]_vars

\* C19: across every sequence of ListService calls (create_list, update_list
\* with any partial, increment_version, delete_list), a stored list's version
\* never decreases and every change to it is an increase of exactly 1.
ListVersionSteps ==
    [][ \A i \in 1..Len(lists) : \A j \in 1..Len(lists') :
            lists'[j].list_id = lists[i].list_id =>
                lists'[j].version \in {lists[i].version, lists[i].version + 1} ]_vars

\* Some stored user has the draft's username, or its e-mail address, or its
\* phone number.
SharesAField(d) ==
    \E i \in 1..Len(users) :
        \/ users[i].username = d.username
        \/ users[i].email = d.email
        \/ users[i].phone_number = d.phone_number

\* C20: create_user(draft) raises UserAlreadyExistsError and stores no new
\* record whenever some stored user has the same username, or the same
\* e-mail, or the same phone number as the draft, each field on its own.
UniqueOnCreate ==
    \A d \in SignupDrafts :
        SharesAField(d) =>
            /\ create_user(World, d).status = "UserAlreadyExistsError"
            /\ create_user(World, d).w = World

\* C21: in every state reached by user create, update and delete operations,
\* no two stored users share a username, no two share an e-mail address and
\* no two share a phone number.
UsersUnique ==
    \A i, j \in 1..Len(users) :
        i # j =>
            /\ users[i].username # users[j].username
            /\ users[i].email # users[j].email
            /\ users[i].phone_number # users[j].phone_number

\* The lookup criteria: each field is either left out (None: "", <<>> or 0)
\* or given a value.
Criteria ==
    [username : {"", "ann", "bob"},
     email : {<<>>, Mail("a", "x")},
     phone_number : {"", "p1"},
     user_id : {0} \cup UserIds,
     google_id : {"", "g1", "g2"}]

\* Some supplied criterion equals that field of some stored user.
SomeCriterionMatches(c) ==
    \E i \in 1..Len(users) :
        \/ c.username # "" /\ users[i].username = c.username
        \/ c.email # <<>> /\ users[i].email = c.email
        \/ c.phone_number # "" /\ users[i].phone_number = c.phone_number
        \/ c.user_id # 0 /\ users[i].user_id = c.user_id
        \/ c.google_id # "" /\ users[i].google_id = c.google_id

\* C22: user_exists returns true exactly when some supplied criterion among
\* username, email, phone_number, user_id and google_id equals that field of
\* a stored user (false when none is supplied); google_authenticate_user
\* returns True under the same condition and raises UserNotFoundError
\* otherwise.
ExistsByAnyCriterion ==
    \A c \in Criteria :
        LET found == user_exists(World, c.username, c.email, c.phone_number,
                                 c.user_id, c.google_id)
            auth == google_authenticate_user(World, c.username, c.email,
                                             c.phone_number, c.user_id, c.google_id)
        IN  /\ found = SomeCriterionMatches(c)
            /\ auth.status = (IF SomeCriterionMatches(c) THEN "ok" ELSE "UserNotFoundError")
            /\ auth.status = "ok" => auth.value = <<TRUE>>

\* The ListCreate payloads: any owner id, stored or not.
ListDrafts == [user_id : UserIds, list_name : {"todo"}]

\* The outcome of clear_list / rollover_list on a list right after it was
\* created by list_data and given one task by task_data.
FirstTransition(list_data, task_data, op) ==
    LET made == create_list(World, list_data)
        list_id == made.value[1].list_id
        filled == create_task(made.w, [task_data EXCEPT !.list_id = list_id])
    IN  version_transition(filled.w, op, list_id)

AnyTaskDrafts ==
    { [d EXCEPT !.user_id = u, !.list_id = l] :
        d \in TaskDrafts, u \in 0..MaxUsers, l \in 0..(MaxLists + 1) }

UserStored(user_id) == \E i \in 1..Len(users) : users[i].user_id = user_id
ListStored(list_id) == \E i \in 1..Len(lists) : lists[i].list_id = list_id

\* create_task(d) raised error and inserted nothing.
CreateTaskFails(d, error) ==
    /\ create_task(World, d).status = error
    /\ create_task(World, d).w = World

\* create_task(d) inserted exactly one task: the draft's fields, a task_id no
\* stored task has, isComplete = false.
CreateTaskInserts(d) ==
    LET r == create_task(World, d)
    IN  /\ r.status = "ok"
        /\ Len(r.value) = 1
        /\ r.w = [World EXCEPT !.tasks = Append(tasks, r.value[1]),
                               !.nextTask = nextTask + 1]
        /\ \A i \in 1..Len(tasks) : tasks[i].task_id # r.value[1].task_id
        /\ r.value[1].isComplete = FALSE
        /\ \A f \in DOMAIN d : r.value[1][f] = d[f]

\* C24 as stated: create_task raises UserNotFoundError when the draft's
\* user_id matches no stored user, ListNotFoundError when its list_id matches
\* no stored list, inserting nothing; otherwise it inserts exactly one task.
CreateTaskNotFound ==
    \A d \in AnyTaskDrafts :
        IF ~UserStored(d.user_id) THEN CreateTaskFails(d, "UserNotFoundError")
        ELSE IF ~ListStored(d.list_id) THEN CreateTaskFails(d, "ListNotFoundError")
        ELSE CreateTaskInserts(d)

\* C24: create_task raises UserNotFoundError when the draft's user_id matches
\* no stored user; for a stored user it raises InvalidParameters when the
\* list_id is empty and ListNotFoundError when a non-empty list_id matches no
\* stored list; nothing is inserted in these cases. Otherwise it inserts
\* exactly one task with a fresh id and isComplete = false.
CreateTaskChecks ==
    \A d \in AnyTaskDrafts :
        IF ~UserStored(d.user_id) THEN CreateTaskFails(d, "UserNotFoundError")
        ELSE IF d.list_id = 0 THEN CreateTaskFails(d, "InvalidParameters")
        ELSE IF ~ListStored(d.list_id) THEN CreateTaskFails(d, "ListNotFoundError")
        ELSE CreateTaskInserts(d)

\* A state with a stored user, a stored list and a stored task in which
\* drafts of all four kinds exist: unknown user, empty list id, known user
\* with an unknown list, and a draft that is inserted.
CreateTaskChecksWitness ==
    /\ Len(tasks) > 0
    /\ \E d \in AnyTaskDrafts :
            /\ ~UserStored(d.user_id) /\ ListStored(d.list_id)
            /\ create_task(World, d).status = "UserNotFoundError"
    /\ \E d \in AnyTaskDrafts :
            /\ UserStored(d.user_id) /\ d.list_id = 0
            /\ create_task(World, d).status = "InvalidParameters"
    /\ \E d \in AnyTaskDrafts :
            /\ UserStored(d.user_id) /\ d.list_id # 0 /\ ~ListStored(d.list_id)
            /\ create_task(World, d).status = "ListNotFoundError"
    /\ \E d \in AnyTaskDrafts :
            /\ UserStored(d.user_id) /\ ListStored(d.list_id)
            /\ create_task(World, d).status = "ok"

\* The outcome of the version-raising call op on list_id.
VersionRaise(op, list_id) ==
    IF op = "increment_version" THEN increment_version(World, list_id)
    ELSE version_transition(World, op, list_id)

\* The list collections before and after differ at most in the version of
\* the list list_id.
OnlyVersionChanged(before, after, list_id) ==
    /\ Len(after) = Len(before)
    /\ \A i \in 1..Len(before) :
            IF before[i].list_id = list_id
            THEN after[i] = [before[i] EXCEPT !.version = after[i].version]
            ELSE after[i] = before[i]

\* C25: increment_version, clear_list and rollover_list change nothing of a
\* list but its version: share_token, visibility, list_name and user_id stay,
\* and the share token issued at creation still resolves to the same list,
\* after the call and in every state the task engine reaches.
ShareTokenStable ==
    /\ \A op \in {"increment_version"} \cup TransitionOps : \A l \in ListIds :
            LET r == VersionRaise(op, l)
            IN  /\ OnlyVersionChanged(lists, r.w.lists, l)
                /\ \A i \in 1..Len(lists) :
                        FindOneIndex(r.w.lists, [share_token |-> lists[i].share_token])
                            = FindOneIndex(lists, [share_token |-> lists[i].share_token])
    /\ \A i \in 1..Len(lists) :
            /\ lists[i].share_token = lists[i].list_id
            /\ lists[i].visibility = PRIVATE
            /\ lists[i].list_name = "todo"
            /\ lists[i].user_id \in OwnerIds

\* A list at version 1 with tasks that clear_list and rollover_list take to
\* version 2, its share token resolving as before.
ShareTokenStableWitness ==
    \E i \in 1..Len(lists) : \A op \in TransitionOps :
        LET r == VersionRaise(op, lists[i].list_id)
        IN  /\ lists[i].version = 1
            /\ r.status = "ok"
            /\ r.w.lists[i].version = 2
            /\ FindOneIndex(r.w.lists, [share_token |-> lists[i].share_token]) = i

\* C26: every stored list's visibility is PRIVATE, ORGANIZATION_ONLY or
\* PUBLIC, and update_list with any other visibility value, the empty one
\* included, raises the validation error and leaves the stores unchanged.
VisibilityValid ==
    /\ \A i \in 1..Len(lists) : lists[i].visibility \in ListVisibilityLevel
    /\ \A i \in 1..Len(lists) : \A v \in VisibilityInputs \ ListVisibilityLevel :
            LET r == update_list(World, lists[i].list_id, [visibility |-> v])
            IN  r.status = "ValueError" /\ r.w = World

\* C27: each toggle either returns the refreshed task with the named flag
\* flipped or raises an error; it never returns normally (here: the
\* {"message": ...} dictionary) with the flag left as it was.
ToggleAllOrNothing ==
    \A t \in TaskIds : \A flag \in Flags :
        LET before == get_task(World, t)
            r == toggle(World, t, flag)
        IN  \/ /\ r.status = "ok"
               /\ before.status = "ok"
               /\ r.value[1].task_id = t
               /\ r.value[1][flag] = ~before.value[1][flag]
               /\ get_task(r.w, t) = r
            \/ r.status \notin {"ok", "message"}

\* The exceptions the task endpoints' service calls raise in this state.
TaskEndpointErrors ==
    ({create_task(World, d).status : d \in AnyTaskDrafts}
        \cup {get_task(World, t).status : t \in TaskIds}
        \cup {delete_task(World, t).status : t \in TaskIds}
        \cup {toggle(World, t, flag).status : t \in TaskIds, flag \in Flags}
        \cup {version_transition(World, op, l).status : op \in TransitionOps, l \in ListIds}
        \cup {get_current_tasks_from_list(World, l).status : l \in ListIds})
    \ {"ok", "message"}

\* The exceptions the list endpoints' service calls raise in this state; <<>>
\* is the update that sets no field.
ListEndpointErrors ==
    ({get_list(World, l).status : l \in ListIds}
        \cup {update_list(World, l, p).status : l \in ListIds, p \in ListPartials \cup {<<>>}}
        \cup {delete_list(World, l).status : l \in ListIds})
    \ {"ok"}

\* The status the response must carry for a failure of that kind.
StatusOfKind(error) ==
    CASE error \in {"UserNotFoundError", "ListNotFoundError", "TaskNotFoundError"} -> 404
      [] error \in {"NoFieldsToUpdateError", "InvalidVersionRequest"} -> 400
      [] error \in {"FailedToDeleteTaskError", "FailedToDeleteList"} -> 500
      [] OTHER -> 0

\* C28: every failure raised through a task or list endpoint is answered
\* with the status of its kind: 404 for every not-found failure (user, list
\* or task; delete_task of an absent task and clear_list / rollover_list of
\* an absent list included), 400 for no-fields and invalid-version failures,
\* 500 for delete-failed ones.
StatusByKind ==
    /\ \A error \in TaskEndpointErrors :
            StatusOfKind(error) # 0 => handle_task_exceptions(error) = StatusOfKind(error)
    /\ \A error \in ListEndpointErrors :
            StatusOfKind(error) # 0 => handle_list_exceptions(error) = StatusOfKind(error)

\* C29: clear_list and rollover_list never modify or delete a stored task:
\* the tasks stored before the call are all still stored afterwards, field
\* for field and in place (the sources of the duplicates included); the call
\* only inserts new task records after them.
HistoryUntouched ==
    \A op \in TransitionOps : \A l \in ListIds :
        LET r == version_transition(World, op, l)
        IN  /\ Len(r.w.tasks) >= Len(tasks)
            /\ SubSeq(r.w.tasks, 1, Len(tasks)) = tasks
            /\ \A i \in (Len(tasks) + 1)..Len(r.w.tasks) :
                    \A j \in 1..Len(tasks) : r.w.tasks[i].task_id # tasks[j].task_id

\* Each of the two calls succeeds on a list with stored tasks and inserts a
\* duplicate.
HistoryUntouchedWitness ==
    \E l \in ListIds : \A op \in TransitionOps :
        LET r == version_transition(World, op, l)
        IN  /\ r.status = "ok"
            /\ Len(tasks) > 0
            /\ Len(r.w.tasks) > Len(tasks)

\* The list's version has advanced beyond the task's list_version.
Archived(task) ==
    \E i \in 1..Len(lists) :
        lists[i].list_id = task.list_id /\ lists[i].version > task.list_version

\* The stores after an update or toggle call, for every such call the model
\* draws.
AfterTaskWrites ==
    {update_task(World, u, t, p).w : u \in UserIds, t \in TaskIds, p \in TaskPartials}
        \cup {toggle(World, t, flag).w : t \in TaskIds, flag \in Flags}

\* C30: once a list's version has advanced beyond a task's list_version, no
\* update_task and no toggle changes any field of that task.
ArchivedImmutable ==
    \A i \in 1..Len(tasks) :
        Archived(tasks[i]) =>
            \A w \in AfterTaskWrites : Len(w.tasks) = Len(tasks) /\ w.tasks[i] = tasks[i]

\* C31: get_versions_of_list with a valid page_start and a page_end above
\* the list's version + 1 does not fail: it returns the per-version
\* collections of the versions page_start .. current version, fewer than
\* page_end - page_start elements.
VersionsOfListOpenEnd ==
    \A l \in ListIds : \A page_start \in QueryVersions : \A page_end \in QueryVersions :
        LET r == get_versions_of_list(World, l, page_start, page_end)
            current == VersionOf(World, l)
        IN  current # 0 /\ 0 <= page_start /\ page_start <= current
                /\ page_end > current + 1 =>
              /\ r.status = "ok"
              /\ Len(r.value) = current - page_start + 1
              /\ Len(r.value) < page_end - page_start
              /\ \A k \in 1..Len(r.value) :
                    r.value[k] = TasksAt(World, l, page_start + k - 1)

\* C36: in every state reached by task operations (create, update, toggles,
\* delete, clear_list, rollover_list) no two stored task records carry the
\* same task_id.
TaskIdUnique ==
    \A i, j \in 1..Len(tasks) : i # j => tasks[i].task_id # tasks[j].task_id

\* C37: every stored task's list_version lies between 0 and the current
\* version of the list it references, so that a successful clear_list or
\* rollover_list never lands on a version that already holds tasks.
TaskVersionInRange ==
    /\ \A i \in 1..Len(tasks) : \A j \in 1..Len(lists) :
            lists[j].list_id = tasks[i].list_id =>
                0 <= tasks[i].list_version /\ tasks[i].list_version <= lists[j].version
    /\ \A op \in TransitionOps : \A l \in ListIds :
            LET r == version_transition(World, op, l)
            IN  r.status = "ok" => TasksAt(World, l, VersionOf(r.w, l)) = <<>>

\* C38: a clear_list or rollover_list that fails with any error leaves the
\* list's version and the stored tasks as they were before the call.
FailedTransitionNoEffect ==
    \A op \in TransitionOps : \A l \in ListIds :
        LET r == version_transition(World, op, l)
        IN  r.status # "ok" =>
                /\ VersionOf(r.w, l) = VersionOf(World, l)
                /\ r.w.tasks = tasks

\* A race of two calls of the methods ops[1] and ops[2] is over: both callers
\* have returned or raised.
RaceOver(ops) ==
    /\ call # Idle
    /\ \A p \in Callers : call.run[p].op = ops[p] /\ call.run[p].status # "running"

\* C32: when two delete_list calls on the same stored list interleave in any
\* order of their store operations, exactly one of them succeeds and the
\* other raises ListNotFoundError or FailedToDeleteList; the list is removed
\* and every other list is still stored.
DeleteRace ==
    RaceOver(<<"delete_list", "delete_list">>) =>
        /\ \E p, q \in Callers :
                /\ p # q
                /\ call.run[p].status = "ok"
                /\ call.run[q].status \in {"ListNotFoundError", "FailedToDeleteList"}
        /\ lists = DeleteOne(call.before.lists, [list_id |-> call.run[1].list_id])
        /\ Len(lists) = Len(call.before.lists) - 1
        /\ FindOneIndex(lists, [list_id |-> call.run[1].list_id]) = 0

\* Both callers saw the list before either removed it; the second delete_one
\* removed nothing and another list is still there.
DeleteRaceWitness ==
    /\ RaceOver(<<"delete_list", "delete_list">>)
    /\ \E q \in Callers : call.run[q].status = "FailedToDeleteList"
    /\ Len(call.before.lists) = 2
    /\ Len(lists) = 1

\* The version of the raced list when the race began.
VersionBeforeRace == VersionOf(call.before, call.run[1].list_id)

\* C34: when two increment_version calls on the same list interleave in any
\* order of their reads and writes, both complete, the list's final version
\* is its initial version + 2, and the two calls return different versions.
IncrementRace ==
    RaceOver(<<"increment_version", "increment_version">>) =>
        /\ \A p \in Callers : call.run[p].status = "ok"
        /\ VersionOf(World, call.run[1].list_id) = VersionBeforeRace + 2
        /\ call.run[1].value[1].version # call.run[2].value[1].version

\* The values of the three flags of a task document.
FlagsIn(task) == [flag \in Flags |-> task[flag]]

\* C35: when two different toggle methods on the same task interleave, then
\* once both have finished both named flags are flipped relative to their
\* values before the race, and the third flag is as it was.
ToggleRace ==
    \A pair \in RacePairs :
        RaceOver(pair) /\ pair[1] \in DOMAIN FlagNames =>
            LET before == get_task(call.before, call.run[1].task_id)
                after == get_task(World, call.run[1].task_id)
            IN  /\ after.status = "ok"
                /\ FlagsIn(after.value[1]) =
                        [FlagsIn(before.value[1]) EXCEPT ![FlagOf(pair[1])] = ~@,
                                                         ![FlagOf(pair[2])] = ~@]

\* C33: when two clear_list calls, or two rollover_list calls, on the same
\* list interleave, then once both have finished every task that was current
\* and recurring before them has exactly one duplicate among the list's
\* current tasks, and every task stored before is still stored, once and
\* unchanged.
TransitionRace ==
    \A op \in TransitionOps :
        RaceOver(<<op, op>>) =>
            LET l == call.run[1].list_id
                sources == RecurringOf(TasksAt(call.before, l, VersionBeforeRace))
                current == RecurringOf(TasksAt(World, l, VersionOf(World, l)))
            IN  /\ (\E p \in Callers : call.run[p].status = "ok") =>
                        OneDuplicateEach(current, sources, VersionOf(World, l))
                /\ SubSeq(tasks, 1, Len(call.before.tasks)) = call.before.tasks
                /\ \A i \in (Len(call.before.tasks) + 1)..Len(tasks) :
                        tasks[i].task_id \notin TaskIdsOf(call.before.tasks)

====
